---------------------------- MODULE Spec2Model ----------------------------
(***************************************************************************)
(* A model of the UAV strategic deconfliction core:                        *)
(*   - TrajectoryCalculator.calculate_trajectory (trajectory_calculator.py)*)
(*   - DeconflictionEngine.check_conflicts       (deconfliction_engine.py) *)
(*   - the helpers of utils.py they call.                                  *)
(*                                                                         *)
(* Numbers.  Python floats are held as exact rationals <<n, d>> in lowest  *)
(* terms with d > 0, so +, -, *, / and the comparisons are exact.          *)
(* math.sqrt is the one rounding operation: it returns the largest         *)
(* multiple of 1/SqrtResolution that is not above the true root, and is    *)
(* exact whenever the root is such a multiple.                             *)
(*                                                                         *)
(* None is the record NoneV.  For an operation that can raise there is a   *)
(* predicate ...Raises telling for which arguments it does; the call then  *)
(* ends at pc = "raised" and its value is not computed.                    *)
(***************************************************************************)
EXTENDS Integers, Sequences, FiniteSets

VARIABLES
    op,                   \* the operation called
    pc,                   \* its position: "called", "loop", "returned", "raised"
    primary_trajectory,   \* check_conflicts: argument
    other_trajectories,   \* check_conflicts: argument
    safety_buffer,        \* check_conflicts / _create_conflict_record: argument
    report,               \* check_conflicts: returned dictionary
    distance,             \* _create_conflict_record: argument
    conflict,             \* _create_conflict_record: returned dictionary
    waypoints,            \* calculate_trajectory: argument
    start_time,           \* calculate_trajectory: argument
    end_time,             \* calculate_trajectory: argument
    time_step,            \* calculate_trajectory: argument
    normalized_waypoints, \* calculate_trajectory: local
    current_time,         \* calculate_trajectory: local
    trajectory_points,    \* calculate_trajectory: local, and the value returned
    args,                 \* a helper called on its own: its arguments
    result                \* a helper called on its own: the value returned

detectorVars == <<primary_trajectory, other_trajectories, safety_buffer, report, distance, conflict>>

samplerVars == <<waypoints, start_time, end_time, time_step, normalized_waypoints, current_time, trajectory_points>>

helperVars == <<args, result>>

vars == <<op, pc, detectorVars, samplerVars, helperVars>>

---------------------------------------------------------------------------
(* Bounds of the model *)

MaxTime == 2
MaxOthers == 2
SqrtResolution == 2
MaxDistance == 16
MaxBuffer == 15
MaxEnd == 3
MaxStep == 2
MaxSeconds == 130
MaxConflicts == 4

---------------------------------------------------------------------------
(* Rational arithmetic *)

Abs(i) == IF i < 0 THEN -i ELSE i

RECURSIVE GCD(_, _)
GCD(a, b) == IF b = 0 THEN a ELSE GCD(b, a % b)

\* The rational n/d (d # 0) in lowest terms with a positive denominator.
Rat(n, d) ==
    LET g == GCD(Abs(n), Abs(d))
        s == IF d < 0 THEN -1 ELSE 1
    IN  <<(s * n) \div g, (s * d) \div g>>

R(i) == <<i, 1>>
RAdd(a, b) == Rat(a[1] * b[2] + b[1] * a[2], a[2] * b[2])
RSub(a, b) == Rat(a[1] * b[2] - b[1] * a[2], a[2] * b[2])
RMul(a, b) == Rat(a[1] * b[1], a[2] * b[2])
RDiv(a, b) == Rat(a[1] * b[2], a[2] * b[1])
RLt(a, b) == a[1] * b[2] < b[1] * a[2]
RLe(a, b) == a[1] * b[2] <= b[1] * a[2]
RMax(a, b) == IF RLt(a, b) THEN b ELSE a
RMin(a, b) == IF RLt(b, a) THEN b ELSE a

RECURSIVE IsqrtFrom(_, _)
IsqrtFrom(n, r) == IF (r + 1) * (r + 1) > n THEN r ELSE IsqrtFrom(n, r + 1)

\* math.sqrt of a rational q >= 0, rounded down to a multiple of
\* 1/SqrtResolution.
Sqrt(q) ==
    Rat(IsqrtFrom((q[1] * SqrtResolution * SqrtResolution) \div q[2], 0),
        SqrtResolution)

NoneV == [none |-> TRUE]

---------------------------------------------------------------------------
(* utils.py *)

calculate_distance_3d(pos1, pos2) ==
    LET dx == RSub(pos1.x, pos2.x)
        dy == RSub(pos1.y, pos2.y)
        dz == RSub(pos1.z, pos2.z)
    IN  Sqrt(RAdd(RAdd(RMul(dx, dx), RMul(dy, dy)), RMul(dz, dz)))

interpolate_position(pos1, pos2, target_time) ==
    IF pos1.time = pos2.time
    THEN pos1
    ELSE LET raw == RDiv(RSub(target_time, pos1.time),
                         RSub(pos2.time, pos1.time))
             time_ratio == RMax(R(0), RMin(R(1), raw))
         IN  [x |-> RAdd(pos1.x, RMul(time_ratio, RSub(pos2.x, pos1.x))),
              y |-> RAdd(pos1.y, RMul(time_ratio, RSub(pos2.y, pos1.y))),
              z |-> RAdd(pos1.z, RMul(time_ratio, RSub(pos2.z, pos1.z))),
              time |-> target_time]

\* A string is the sequence of its characters.
Digits == <<"0", "1", "2", "3", "4", "5", "6", "7", "8", "9">>

\* str(n) of an integer n, as an f-string renders it.
RECURSIVE StrNat(_)
StrNat(n) ==
    IF n < 10 THEN <<Digits[n + 1]>>
    ELSE StrNat(n \div 10) \o <<Digits[(n % 10) + 1]>>

Str(n) == IF n < 0 THEN <<"-">> \o StrNat(-n) ELSE StrNat(n)

\* a // b and a % b of Python: the floor of the quotient and what is left,
\* which has the sign of b.
FloorDiv(a, b) == R(RDiv(a, b)[1] \div RDiv(a, b)[2])
Mod(a, b) == RSub(a, RMul(b, FloorDiv(a, b)))

\* int(q): the fraction is cut off, towards zero.
IntOf(q) == IF q[1] < 0 THEN -((-q[1]) \div q[2]) ELSE q[1] \div q[2]

\* Mutant of format_time: no branch for a negative time.
FormatTimeUnsigned(seconds) ==
    LET minutes == IntOf(FloorDiv(seconds, R(60)))
        remaining_seconds == IntOf(Mod(seconds, R(60)))
    IN  IF minutes > 0
        THEN Str(minutes) \o <<"m", " ">> \o Str(remaining_seconds) \o <<"s">>
        ELSE Str(remaining_seconds) \o <<"s">>

RECURSIVE format_time(_)
format_time(seconds) ==
    IF RLt(seconds, R(0))
    THEN <<"-">> \o format_time(RSub(R(0), seconds))
    ELSE
    LET minutes == IntOf(FloorDiv(seconds, R(60)))
        remaining_seconds == IntOf(Mod(seconds, R(60)))
    IN  IF minutes > 0
        THEN Str(minutes) \o <<"m", " ">> \o Str(remaining_seconds) \o <<"s">>
        ELSE Str(remaining_seconds) \o <<"s">>

\* The number of calls format_time makes of itself.
RECURSIVE FormatTimeRecursions(_)
FormatTimeRecursions(seconds) ==
    IF RLt(seconds, R(0))
    THEN 1 + FormatTimeRecursions(RSub(R(0), seconds))
    ELSE 0

\* Mutant of generate_safety_buffer_recommendations: three conflicts are
\* already "multiple".
RecommendationsFromThree(conflicts) ==
    IF Len(conflicts) = 0
    THEN <<[type |-> "maintain", suggested_buffer |-> NoneV]>>
    ELSE
    LET distances == {conflicts[i].distance : i \in 1..Len(conflicts)}
        min_distance == CHOOSE d \in distances : \A e \in distances : RLe(d, e)
        high_severity_conflicts ==
            SelectSeq(conflicts, LAMBDA c : c.severity = "HIGH")
        recommended_buffer == RMul(min_distance, Rat(5, 2))
    IN  (IF Len(high_severity_conflicts) > 0
         THEN <<[type |-> "increase", suggested_buffer |-> recommended_buffer]>>
         ELSE << >>)
        \o
        (IF Len(conflicts) >= 3
         THEN <<[type |-> "temporal_adjustment", suggested_buffer |-> NoneV]>>
         ELSE << >>)

\* The recommendations, each as its type and its suggested_buffer (the
\* message and reason texts are left out).
generate_safety_buffer_recommendations(conflicts) ==
    IF Len(conflicts) = 0
    THEN <<[type |-> "maintain", suggested_buffer |-> NoneV]>>
    ELSE
    LET distances == {conflicts[i].distance : i \in 1..Len(conflicts)}
        min_distance == CHOOSE d \in distances : \A e \in distances : RLe(d, e)
        high_severity_conflicts ==
            SelectSeq(conflicts, LAMBDA c : c.severity = "HIGH")
        recommended_buffer == RMul(min_distance, Rat(5, 2))
    IN  (IF Len(high_severity_conflicts) > 0
         THEN <<[type |-> "increase", suggested_buffer |-> recommended_buffer]>>
         ELSE << >>)
        \o
        (IF Len(conflicts) > 3
         THEN <<[type |-> "temporal_adjustment", suggested_buffer |-> NoneV]>>
         ELSE << >>)

---------------------------------------------------------------------------
(* deconfliction_engine.py *)

\* Mutant of SurroundingPoints: the times of the candidates are not
\* compared, the last sample seen on each side is kept.
RECURSIVE SurroundingPointsLastSeen(_, _, _, _, _)
SurroundingPointsLastSeen(trajectory, target_time, i, before_point, after_point) ==
    IF i > Len(trajectory)
    THEN <<before_point, after_point>>
    ELSE LET point == trajectory[i] IN
         IF RLt(point.time, target_time)
         THEN SurroundingPointsLastSeen(trajectory, target_time, i + 1,
                  point, after_point)
         ELSE IF RLt(target_time, point.time)
         THEN SurroundingPointsLastSeen(trajectory, target_time, i + 1,
                  before_point, point)
         ELSE SurroundingPointsLastSeen(trajectory, target_time, i + 1,
                  before_point, after_point)

\* The second loop of _get_position_at_time: the latest sample before
\* target_time and the earliest one after it (the first of equals).
RECURSIVE SurroundingPoints(_, _, _, _, _)
SurroundingPoints(trajectory, target_time, i, before_point, after_point) ==
    IF i > Len(trajectory)
    THEN <<before_point, after_point>>
    ELSE LET point == trajectory[i] IN
         IF RLt(point.time, target_time)
         THEN SurroundingPoints(trajectory, target_time, i + 1,
                  IF before_point = NoneV \/ RLt(before_point.time, point.time)
                  THEN point ELSE before_point,
                  after_point)
         ELSE IF RLt(target_time, point.time)
         THEN SurroundingPoints(trajectory, target_time, i + 1,
                  before_point,
                  IF after_point = NoneV \/ RLt(point.time, after_point.time)
                  THEN point ELSE after_point)
         ELSE SurroundingPoints(trajectory, target_time, i + 1,
                  before_point, after_point)

\* Mutant of _get_position_at_time: an empty trajectory resolves to the
\* origin instead of None.
GetPositionOrOrigin(trajectory, target_time) ==
    LET exact == {i \in 1..Len(trajectory) : trajectory[i].time = target_time}
    IN  IF exact # {}
        THEN trajectory[CHOOSE i \in exact : \A j \in exact : i <= j]
        ELSE LET sp == SurroundingPoints(trajectory, target_time, 1, NoneV, NoneV)
                 before_point == sp[1]
                 after_point == sp[2]
             IN  IF before_point # NoneV /\ after_point # NoneV
                 THEN interpolate_position(before_point, after_point, target_time)
                 ELSE IF before_point # NoneV THEN before_point
                 ELSE IF after_point # NoneV THEN after_point
                 ELSE [x |-> R(0), y |-> R(0), z |-> R(0), time |-> target_time]

_get_position_at_time(trajectory, target_time) ==
    LET exact == {i \in 1..Len(trajectory) : trajectory[i].time = target_time}
    IN  IF exact # {}
        THEN trajectory[CHOOSE i \in exact : \A j \in exact : i <= j]
        ELSE LET sp == SurroundingPoints(trajectory, target_time, 1, NoneV, NoneV)
                 before_point == sp[1]
                 after_point == sp[2]
             IN  IF before_point # NoneV /\ after_point # NoneV
                 THEN interpolate_position(before_point, after_point, target_time)
                 ELSE IF before_point # NoneV THEN before_point
                 ELSE IF after_point # NoneV THEN after_point
                 ELSE NoneV

\* Which object _get_position_at_time returns: the index of the sample
\* of the trajectory that is returned itself (the exact match, or the
\* nearest sample when one side only has samples; the first of equals), or
\* 0 for the dictionary interpolate_position makes anew and for None.
PositionSample(trajectory, target_time) ==
    LET exact == {i \in 1..Len(trajectory) : trajectory[i].time = target_time}
        before == {i \in 1..Len(trajectory) : RLt(trajectory[i].time, target_time)}
        after == {i \in 1..Len(trajectory) : RLt(target_time, trajectory[i].time)}
        latest == {b \in before :
                      \A j \in before : RLe(trajectory[j].time, trajectory[b].time)}
        earliest == {a \in after :
                        \A j \in after : RLe(trajectory[a].time, trajectory[j].time)}
        First(S) == CHOOSE i \in S : \A j \in S : i <= j
    IN  IF exact # {} THEN First(exact)
        ELSE IF before # {} /\ after # {} THEN 0
        ELSE IF before # {} THEN First(latest)
        ELSE IF after # {} THEN First(earliest)
        ELSE 0

\* Mutant of Severity: the thresholds compared with <=.
SeverityInclusive(distance_, safety_buffer_) ==
    IF RLe(distance_, RMul(safety_buffer_, Rat(1, 2))) THEN "HIGH"
    ELSE IF RLe(distance_, RMul(safety_buffer_, Rat(4, 5))) THEN "MEDIUM"
    ELSE "LOW"

Severity(distance_, safety_buffer_) ==
    IF RLt(distance_, RMul(safety_buffer_, Rat(1, 2))) THEN "HIGH"
    ELSE IF RLt(distance_, RMul(safety_buffer_, Rat(4, 5))) THEN "MEDIUM"
    ELSE "LOW"

\* Mutant of SeverityScore: the share of the buffer that is left, not the
\* share that is entered.
SeverityScoreRemaining(distance_, safety_buffer_) ==
    RMax(R(0), RDiv(distance_, safety_buffer_))

\* Mutant of SeverityScore: the score is not clamped at 0.
SeverityScoreUnclamped(distance_, safety_buffer_) ==
    RDiv(RSub(safety_buffer_, distance_), safety_buffer_)

\* Called for safety_buffer # 0 only.
SeverityScore(distance_, safety_buffer_) ==
    RMax(R(0), RDiv(RSub(safety_buffer_, distance_), safety_buffer_))

\* The first statement of _create_conflict_record divides by
\* safety_buffer: ZeroDivisionError.
CreateRaises(safety_buffer_) == safety_buffer_ = R(0)

\* Mutant of _create_conflict_record: the location is the position of the
\* primary flight.
CreateConflictRecordAtPrimary(primary_pos, other_pos, time_point, distance_, other_flight_id, safety_buffer_) ==
    [type |-> "spatial",
     time |-> time_point,
     location |-> [x |-> primary_pos.x, y |-> primary_pos.y, z |-> primary_pos.z],
     distance |-> distance_,
     safety_buffer |-> safety_buffer_,
     severity |-> Severity(distance_, safety_buffer_),
     severity_score |-> SeverityScore(distance_, safety_buffer_),
     other_flight_id |-> other_flight_id,
     primary_position |-> primary_pos,
     other_position |-> other_pos]

_create_conflict_record(primary_pos, other_pos, time_point, distance_, other_flight_id, safety_buffer_) ==
    [type |-> "spatial",
     time |-> time_point,
     location |-> [x |-> RDiv(RAdd(primary_pos.x, other_pos.x), R(2)),
                   y |-> RDiv(RAdd(primary_pos.y, other_pos.y), R(2)),
                   z |-> RDiv(RAdd(primary_pos.z, other_pos.z), R(2))],
     distance |-> distance_,
     safety_buffer |-> safety_buffer_,
     severity |-> Severity(distance_, safety_buffer_),
     severity_score |-> SeverityScore(distance_, safety_buffer_),
     other_flight_id |-> other_flight_id,
     primary_position |-> primary_pos,
     other_position |-> other_pos]

\* sorted(S) for a set of times.
RECURSIVE SortedTimes(_)
SortedTimes(S) ==
    IF S = {} THEN << >>
    ELSE LET m == CHOOSE a \in S : \A b \in S : RLe(a, b)
         IN  <<m>> \o SortedTimes(S \ {m})

TimesOf(trajectory) == {trajectory[i].time : i \in 1..Len(trajectory)}

\* Mutant of AllTimes: the instants of the primary trajectory alone.
AllTimesPrimaryOnly(primary_traj, other_traj) ==
    SortedTimes(TimesOf(primary_traj))

AllTimes(primary_traj, other_traj) ==
    SortedTimes(TimesOf(primary_traj) \cup TimesOf(other_traj))

\* Mutant of IsConflict: the distance is held against the size of the
\* buffer, whatever its sign.
IsConflictAbsolute(primary_pos, other_pos, safety_buffer_) ==
    /\ primary_pos # NoneV
    /\ other_pos # NoneV
    /\ RLt(calculate_distance_3d(primary_pos, other_pos),
           RMax(safety_buffer_, RSub(R(0), safety_buffer_)))

\* Mutant of IsConflict: distance <= safety_buffer.
IsConflictInclusive(primary_pos, other_pos, safety_buffer_) ==
    /\ primary_pos # NoneV
    /\ other_pos # NoneV
    /\ RLe(calculate_distance_3d(primary_pos, other_pos), safety_buffer_)

\* Whether the loop body of _detect_trajectory_conflicts appends a record
\* at time_point.
IsConflict(primary_pos, other_pos, safety_buffer_) ==
    /\ primary_pos # NoneV
    /\ other_pos # NoneV
    /\ RLt(calculate_distance_3d(primary_pos, other_pos), safety_buffer_)

RECURSIVE DetectLoop(_, _, _, _, _, _, _)
DetectLoop(primary_traj, other_traj, other_flight_id, safety_buffer_, all_times, i, conflicts) ==
    IF i > Len(all_times)
    THEN conflicts
    ELSE LET time_point == all_times[i]
             primary_pos == _get_position_at_time(primary_traj, time_point)
             other_pos == _get_position_at_time(other_traj, time_point)
         IN  DetectLoop(primary_traj, other_traj, other_flight_id,
                 safety_buffer_, all_times, i + 1,
                 IF IsConflict(primary_pos, other_pos, safety_buffer_)
                 THEN Append(conflicts,
                          _create_conflict_record(primary_pos, other_pos,
                              time_point,
                              calculate_distance_3d(primary_pos, other_pos),
                              other_flight_id, safety_buffer_))
                 ELSE conflicts)

_detect_trajectory_conflicts(primary_traj, other_traj, other_flight_id, safety_buffer_) ==
    DetectLoop(primary_traj, other_traj, other_flight_id, safety_buffer_,
               AllTimes(primary_traj, other_traj), 1, << >>)

\* _detect_trajectory_conflicts raises when it reaches
\* _create_conflict_record with a zero buffer.
DetectRaises(primary_traj, other_traj, safety_buffer_) ==
    LET all_times == AllTimes(primary_traj, other_traj) IN
    \E i \in 1..Len(all_times) :
        /\ IsConflict(_get_position_at_time(primary_traj, all_times[i]),
                      _get_position_at_time(other_traj, all_times[i]),
                      safety_buffer_)
        /\ CreateRaises(safety_buffer_)

\* Mutant of KeyLt: the sort key is the time alone.
KeyLtTimeOnly(a, b) == RLt(a.time, b.time)

\* The sort key (severity_score, time), compared as Python compares tuples.
KeyLt(a, b) ==
    \/ RLt(a.severity_score, b.severity_score)
    \/ /\ a.severity_score = b.severity_score
       /\ RLt(a.time, b.time)

\* list.sort is stable: c goes before the first element whose key is
\* greater.
InsertByKey(sorted, c) ==
    LET later == {j \in 1..Len(sorted) : KeyLt(c, sorted[j])}
        k == IF later = {} THEN Len(sorted) + 1
             ELSE CHOOSE j \in later : \A m \in later : j <= m
    IN  SubSeq(sorted, 1, k - 1) \o <<c>> \o SubSeq(sorted, k, Len(sorted))

RECURSIVE SortFrom(_, _, _)
SortFrom(conflicts, i, sorted) ==
    IF i > Len(conflicts) THEN sorted
    ELSE SortFrom(conflicts, i + 1, InsertByKey(sorted, conflicts[i]))

\* Mutant of SortConflicts: the records stay in the order of detection.
SortConflictsNever(conflicts) == conflicts

SortConflicts(conflicts) == SortFrom(conflicts, 1, << >>)

\* Mutant of PairLoop: total_checks counts the merged instants compared.
RECURSIVE PairLoopMergedInstants(_, _, _, _, _, _)
PairLoopMergedInstants(primary, others, safety_buffer_, i, conflicts, total_checks) ==
    IF i > Len(others)
    THEN <<conflicts, total_checks>>
    ELSE LET other_trajectory == others[i].trajectory
             other_flight_id == others[i].flight_id
             traj_conflicts ==
                 _detect_trajectory_conflicts(primary, other_trajectory,
                                              other_flight_id, safety_buffer_)
         IN  PairLoopMergedInstants(primary, others, safety_buffer_, i + 1,
                      conflicts \o traj_conflicts,
                      total_checks + Len(AllTimes(primary, other_trajectory)))

\* The first loop of check_conflicts: <<conflicts, total_checks>> after the
\* flights i..Len(others).
RECURSIVE PairLoop(_, _, _, _, _, _)
PairLoop(primary, others, safety_buffer_, i, conflicts, total_checks) ==
    IF i > Len(others)
    THEN <<conflicts, total_checks>>
    ELSE LET other_trajectory == others[i].trajectory
             other_flight_id == others[i].flight_id
             traj_conflicts ==
                 _detect_trajectory_conflicts(primary, other_trajectory,
                                              other_flight_id, safety_buffer_)
         IN  PairLoop(primary, others, safety_buffer_, i + 1,
                      conflicts \o traj_conflicts,
                      total_checks + Len(primary) * Len(other_trajectory))

\* Mutant of CountType: the type of a record is not looked at.
CountTypeAny(conflicts, type) == Len(conflicts)

CountType(conflicts, type) ==
    Cardinality({i \in 1..Len(conflicts) : conflicts[i].type = type})

\* Mutant of check_conflicts: is_safe tells that no conflict is HIGH.
CheckConflictsSafeUnlessHigh(primary, others, safety_buffer_) ==
    LET pl == PairLoop(primary, others, safety_buffer_, 1, << >>, 0)
        conflicts == pl[1]
        sorted == SortConflicts(conflicts)
    IN  [conflicts |-> sorted,
         summary |-> [total_checks |-> pl[2],
                      spatial_violations |-> CountType(conflicts, "spatial"),
                      temporal_violations |-> CountType(conflicts, "temporal"),
                      safe_segments |-> 0],
         is_safe |-> \A i \in 1..Len(sorted) : sorted[i].severity # "HIGH",
         total_conflicts |-> Len(sorted)]

check_conflicts(primary, others, safety_buffer_) ==
    LET pl == PairLoop(primary, others, safety_buffer_, 1, << >>, 0)
        conflicts == pl[1]
        sorted == SortConflicts(conflicts)
    IN  [conflicts |-> sorted,
         summary |-> [total_checks |-> pl[2],
                      spatial_violations |-> CountType(conflicts, "spatial"),
                      temporal_violations |-> CountType(conflicts, "temporal"),
                      safe_segments |-> 0],
         is_safe |-> Len(sorted) = 0,
         total_conflicts |-> Len(sorted)]

\* check_conflicts raises when the detection of one of the pairs does.
CheckRaises(primary, others, safety_buffer_) ==
    \E i \in 1..Len(others) :
        DetectRaises(primary, others[i].trajectory, safety_buffer_)

\* Mutant of ConflictZone: time_start is not held at 0.
ConflictZoneUnclamped(conflict_, buffer_expansion) ==
    [center |-> conflict_.location,
     radius |-> RMul(conflict_.safety_buffer, buffer_expansion),
     severity |-> conflict_.severity,
     time_start |-> RSub(conflict_.time, R(10)),
     time_end |-> RAdd(conflict_.time, R(10))]

\* The zone get_conflict_zones makes of one conflict (its conflict_id, a
\* text made of other_flight_id and time, is left out).
ConflictZone(conflict_, buffer_expansion) ==
    [center |-> conflict_.location,
     radius |-> RMul(conflict_.safety_buffer, buffer_expansion),
     severity |-> conflict_.severity,
     time_start |-> RMax(R(0), RSub(conflict_.time, R(10))),
     time_end |-> RAdd(conflict_.time, R(10))]

get_conflict_zones(conflicts, buffer_expansion) ==
    [i \in 1..Len(conflicts) |-> ConflictZone(conflicts[i], buffer_expansion)]

---------------------------------------------------------------------------
(* trajectory_calculator.py *)

default_speed == 15
max_speed == 30
min_speed == 5

\* calculate_trajectory, the guard before anything else:
\* not waypoints or len(waypoints) < 2.
TooFewWaypointsBelowOne(waypoints_) == Len(waypoints_) = 0 \/ Len(waypoints_) < 1

TooFewWaypoints(waypoints_) == Len(waypoints_) = 0 \/ Len(waypoints_) < 2

\* all('time' in wp for wp in waypoints)
AllHaveTime(waypoints_) ==
    \A i \in 1..Len(waypoints_) : "time" \in DOMAIN waypoints_[i]

\* max(wp['time'] for wp in waypoints), of a non-empty list.
MaxRawTime(waypoints_) ==
    LET times == {waypoints_[i].time : i \in 1..Len(waypoints_)}
    IN  CHOOSE m \in times : \A t \in times : RLe(t, m)

\* wp.get('z', 50.0)
GetZ(wp) == IF "z" \in DOMAIN wp THEN wp.z ELSE R(50)

\* sorted(normalized, key=lambda x: x['time']): stable, so an element goes
\* behind those already placed that have the same time.
InsertByTime(sorted, wp) ==
    LET k == Cardinality({j \in 1..Len(sorted) : RLe(sorted[j].time, wp.time)})
    IN  SubSeq(sorted, 1, k) \o <<wp>> \o SubSeq(sorted, k + 1, Len(sorted))

RECURSIVE SortByTimeFrom(_, _, _)
SortByTimeFrom(normalized, i, sorted) ==
    IF i > Len(normalized) THEN sorted
    ELSE SortByTimeFrom(normalized, i + 1, InsertByTime(sorted, normalized[i]))

\* _normalize_waypoint_times raises ZeroDivisionError when every waypoint
\* has a time and the largest of them is 0.
NormalizeRaises(waypoints_) ==
    /\ Len(waypoints_) > 0
    /\ AllHaveTime(waypoints_)
    /\ MaxRawTime(waypoints_) = R(0)

_normalize_waypoint_times(waypoints_, start_time_, end_time_) ==
    IF Len(waypoints_) = 0 THEN << >>
    ELSE
    LET mission_duration == RSub(end_time_, start_time_)
        n == Len(waypoints_)
        normalized_time(i) ==
            IF AllHaveTime(waypoints_)
            THEN RAdd(start_time_,
                      RMul(RDiv(waypoints_[i].time, MaxRawTime(waypoints_)),
                           mission_duration))
            ELSE LET time_fraction == IF n > 1 THEN Rat(i - 1, n - 1) ELSE R(0)
                 IN  RAdd(start_time_, RMul(time_fraction, mission_duration))
        normalized == [i \in 1..n |->
                          [x |-> waypoints_[i].x,
                           y |-> waypoints_[i].y,
                           z |-> GetZ(waypoints_[i]),
                           time |-> normalized_time(i)]]
    IN  SortByTimeFrom(normalized, 1, << >>)

\* The first segment from i on with wp1.time <= target_time <= wp2.time, or
\* 0 when there is none.
RECURSIVE SegmentAt(_, _, _)
SegmentAt(waypoints_, target_time, i) ==
    IF i > Len(waypoints_) - 1 THEN 0
    ELSE IF /\ RLe(waypoints_[i].time, target_time)
            /\ RLe(target_time, waypoints_[i + 1].time)
         THEN i
         ELSE SegmentAt(waypoints_, target_time, i + 1)

\* _interpolate_position_at_time divides by the duration of the segment it
\* finds once neither edge case returned.
InterpolateRaises(waypoints_, target_time) ==
    /\ Len(waypoints_) > 0
    /\ ~RLe(target_time, waypoints_[1].time)
    /\ ~RLe(waypoints_[Len(waypoints_)].time, target_time)
    /\ LET i == SegmentAt(waypoints_, target_time, 1)
       IN  i # 0 /\ waypoints_[i + 1].time = waypoints_[i].time

_interpolate_position_at_time(waypoints_, target_time) ==
    IF Len(waypoints_) = 0 THEN NoneV
    ELSE IF RLe(target_time, waypoints_[1].time) THEN waypoints_[1]
    ELSE IF RLe(waypoints_[Len(waypoints_)].time, target_time)
         THEN waypoints_[Len(waypoints_)]
    ELSE
    LET i == SegmentAt(waypoints_, target_time, 1)
    IN  IF i = 0 THEN waypoints_[Len(waypoints_)]
        ELSE
        LET wp1 == waypoints_[i]
            wp2 == waypoints_[i + 1]
            time_ratio == RDiv(RSub(target_time, wp1.time),
                               RSub(wp2.time, wp1.time))
        IN  [x |-> RAdd(wp1.x, RMul(time_ratio, RSub(wp2.x, wp1.x))),
             y |-> RAdd(wp1.y, RMul(time_ratio, RSub(wp2.y, wp1.y))),
             z |-> RAdd(wp1.z, RMul(time_ratio, RSub(wp2.z, wp1.z))),
             time |-> target_time]

\* The first segment from i on that holds target_time and has a positive
\* duration, or 0: the loop of _calculate_speed_at_time goes on past a
\* segment whose time_diff is not positive.
RECURSIVE SpeedSegmentAt(_, _, _)
SpeedSegmentAt(waypoints_, target_time, i) ==
    LET k == SegmentAt(waypoints_, target_time, i)
    IN  IF k = 0 THEN 0
        ELSE IF RLt(R(0), RSub(waypoints_[k + 1].time, waypoints_[k].time))
             THEN k
             ELSE SpeedSegmentAt(waypoints_, target_time, k + 1)

\* max(self.min_speed, min(self.max_speed, speed))
ClampSpeedMaxOnly(speed) == RMin(R(max_speed), speed)

ClampSpeed(speed) == RMax(R(min_speed), RMin(R(max_speed), speed))

_calculate_speed_at_time(waypoints_, target_time) ==
    IF Len(waypoints_) < 2 THEN R(0)
    ELSE
    LET k == SpeedSegmentAt(waypoints_, target_time, 1)
    IN  IF k = 0 THEN R(default_speed)
        ELSE
        LET wp1 == waypoints_[k]
            wp2 == waypoints_[k + 1]
            dx == RSub(wp2.x, wp1.x)
            dy == RSub(wp2.y, wp1.y)
            dz == RSub(wp2.z, wp1.z)
            distance_ == Sqrt(RAdd(RAdd(RMul(dx, dx), RMul(dy, dy)),
                                   RMul(dz, dz)))
            time_diff == RSub(wp2.time, wp1.time)
        IN  ClampSpeed(RDiv(distance_, time_diff))

\* math.atan2(dy, dx) * 180 / math.pi is held as the direction it measures:
\* the integer vector <<dy, dx>> in lowest terms, so that two headings are
\* equal exactly when the angles are.  atan2(0, 0) is 0, the angle of
\* <<0, 1>>.
Heading(dy, dx) ==
    LET a == dy[1] * dx[2]
        b == dx[1] * dy[2]
        g == GCD(Abs(a), Abs(b))
    IN  IF a = 0 /\ b = 0 THEN <<0, 1>> ELSE <<a \div g, b \div g>>

_calculate_heading_at_time(waypoints_, target_time) ==
    IF Len(waypoints_) < 2 THEN Heading(R(0), R(1))
    ELSE
    LET i == SegmentAt(waypoints_, target_time, 1)
    IN  IF i = 0 THEN Heading(R(0), R(1))
        ELSE Heading(RSub(waypoints_[i + 1].y, waypoints_[i].y),
                     RSub(waypoints_[i + 1].x, waypoints_[i].x))

\* The body of the sampling loop: the point appended for current_time.
TrajectoryPoint(normalized, current_time_) ==
    LET position == _interpolate_position_at_time(normalized, current_time_)
    IN  [time |-> current_time_,
         x |-> position.x,
         y |-> position.y,
         z |-> position.z,
         speed |-> _calculate_speed_at_time(normalized, current_time_),
         heading |-> _calculate_heading_at_time(normalized, current_time_)]

\* "Ensure end waypoint is included"
EnsureEndPointNever(points, normalized, end_time_) == points

\* Mutant of EnsureEndPoint: the end point stands at the first normalized
\* waypoint.
EnsureEndPointAtFirst(points, normalized, end_time_) ==
    IF Len(points) > 0 /\ RLt(points[Len(points)].time, end_time_)
    THEN LET final_position == normalized[1]
         IN  Append(points,
                    [time |-> end_time_,
                     x |-> final_position.x,
                     y |-> final_position.y,
                     z |-> final_position.z,
                     speed |-> R(0),
                     heading |-> points[Len(points)].heading])
    ELSE points

\* Mutant of EnsureEndPoint: the end point is appended also behind a grid
\* sample that stands at end_time.
EnsureEndPointInclusive(points, normalized, end_time_) ==
    IF Len(points) > 0 /\ RLe(points[Len(points)].time, end_time_)
    THEN LET final_position == normalized[Len(normalized)]
         IN  Append(points,
                    [time |-> end_time_,
                     x |-> final_position.x,
                     y |-> final_position.y,
                     z |-> final_position.z,
                     speed |-> R(0),
                     heading |-> points[Len(points)].heading])
    ELSE points

EnsureEndPoint(points, normalized, end_time_) ==
    IF Len(points) > 0 /\ RLt(points[Len(points)].time, end_time_)
    THEN LET final_position == normalized[Len(normalized)]
         IN  Append(points,
                    [time |-> end_time_,
                     x |-> final_position.x,
                     y |-> final_position.y,
                     z |-> final_position.z,
                     speed |-> R(0),
                     heading |-> points[Len(points)].heading])
    ELSE points

---------------------------------------------------------------------------
(* Inputs of check_conflicts *)

Origin == [x |-> R(0), y |-> R(0), z |-> R(0)]
Far == [x |-> R(4), y |-> R(8), z |-> R(8)]
Positions == {Origin, Far}

Point(t, p) == [time |-> t, x |-> p.x, y |-> p.y, z |-> p.z]

SamplePoints == {Point(R(t), p) : t \in 0..MaxTime, p \in Positions}

SeqsOf(S, lengths) == UNION {[1..k -> S] : k \in lengths}
SeqsUpTo(S, n) == SeqsOf(S, 0..n)

\* Trajectories of zero, one and two samples, in any order of time and with
\* repeated times.
SampleCounts == 0..2
Trajectories == SeqsOf(SamplePoints, SampleCounts)

RECURSIVE TotalSamples(_)
TotalSamples(trajs) ==
    IF trajs = << >> THEN 0
    ELSE Len(Head(trajs)) + TotalSamples(Tail(trajs))

\* Up to MaxOthers other flights, holding together no more samples than one
\* trajectory may.
OtherLists ==
    {trajs \in SeqsUpTo(Trajectories, MaxOthers) :
        TotalSamples(trajs) \in SampleCounts}

\* Flight identifiers are unique within a scenario
\* (scenario_generator.py): the i-th flight is i.
Flights(trajs) == [i \in 1..Len(trajs) |->
                     [flight_id |-> i, trajectory |-> trajs[i]]]

Buffers == {R(-12), R(0), R(12), R(15)}

\* The crossing of the spatial-conflict scenario: both flights sampled at
\* t = 120, 5 m apart, with the default buffer.
CrossingPrimary == <<Point(R(120), [x |-> R(50), y |-> R(50), z |-> R(60)])>>
CrossingOther == <<Point(R(120), [x |-> R(50), y |-> R(50), z |-> R(55)])>>
CrossingBuffer == R(50)

\* Arguments of _create_conflict_record taken alone: distances in steps of
\* one half up to MaxDistance, buffers of either sign up to MaxBuffer.
Distances == {Rat(k, 2) : k \in 0..(2 * MaxDistance)}
RecordBuffers == {R(b) : b \in (-MaxBuffer)..MaxBuffer}

DetectorInit ==
    /\ pc = "called"
    /\ \/ /\ op = "check_conflicts"
          /\ \/ /\ primary_trajectory \in Trajectories
                /\ \E trajs \in OtherLists :
                       other_trajectories = Flights(trajs)
                /\ safety_buffer \in Buffers
             \/ /\ primary_trajectory = CrossingPrimary
                /\ other_trajectories = Flights(<<CrossingOther>>)
                /\ safety_buffer = CrossingBuffer
          /\ distance = R(0)
       \/ /\ op = "_create_conflict_record"
          /\ primary_trajectory = << >>
          /\ other_trajectories = << >>
          /\ safety_buffer \in RecordBuffers
          /\ distance \in Distances
    /\ report = NoneV
    /\ conflict = NoneV
    /\ waypoints = << >>
    /\ start_time = R(0)
    /\ end_time = R(0)
    /\ time_step = R(0)
    /\ normalized_waypoints = << >>
    /\ current_time = R(0)
    /\ trajectory_points = << >>
    /\ args = NoneV
    /\ result = NoneV

CheckConflicts ==
    /\ op = "check_conflicts"
    /\ pc = "called"
    /\ IF CheckRaises(primary_trajectory, other_trajectories, safety_buffer)
       THEN /\ pc' = "raised"
            /\ report' = report
       ELSE /\ pc' = "returned"
            /\ report' = check_conflicts(primary_trajectory,
                                         other_trajectories, safety_buffer)
    /\ UNCHANGED <<op, primary_trajectory, other_trajectories, safety_buffer,
                   distance, conflict, samplerVars, helperVars>>

\* _create_conflict_record on the positions Origin and Far at time 1 for
\* flight 1.
CreateConflictRecord ==
    /\ op = "_create_conflict_record"
    /\ pc = "called"
    /\ IF CreateRaises(safety_buffer)
       THEN /\ pc' = "raised"
            /\ conflict' = conflict
       ELSE /\ pc' = "returned"
            /\ conflict' = _create_conflict_record(Origin, Far, R(1),
                                distance, 1, safety_buffer)
    /\ UNCHANGED <<op, primary_trajectory, other_trajectories, safety_buffer,
                   distance, report, samplerVars, helperVars>>

DetectorNext == CheckConflicts \/ CreateConflictRecord

SpecDetector == DetectorInit /\ [][DetectorNext]_vars

---------------------------------------------------------------------------
(* Calls of calculate_trajectory *)

\* 36 away from Origin.
Remote == [x |-> R(12), y |-> R(24), z |-> R(24)]

RawTimes == {-1, 0, 1, 2}

\* Waypoints with a raw time, and waypoints without the 'time' key.
WaypointPool ==
    {[x |-> p.x, y |-> p.y, z |-> p.z, time |-> R(t)] :
        p \in {Origin, Remote}, t \in RawTimes}
    \cup {[x |-> p.x, y |-> p.y, z |-> p.z] : p \in {Origin, Remote}}

WaypointCounts == 0..3
StartTimes == {0, 1}

\* The sampling loop is followed for at most MaxSamples points: one more
\* than the longest grid a positive time_step gives between the bounds.
MaxSamples == MaxEnd + 2

SamplerInit ==
    /\ op = "calculate_trajectory"
    /\ pc = "called"
    /\ waypoints \in SeqsOf(WaypointPool, WaypointCounts)
    /\ \E t \in StartTimes : start_time = R(t)
    /\ \E t \in 0..MaxEnd : end_time = R(t)
    /\ \E t \in (-1)..MaxStep : time_step = R(t)
    /\ normalized_waypoints = << >>
    /\ current_time = R(0)
    /\ trajectory_points = << >>
    /\ primary_trajectory = << >>
    /\ other_trajectories = << >>
    /\ safety_buffer = R(0)
    /\ distance = R(0)
    /\ report = NoneV
    /\ conflict = NoneV
    /\ args = NoneV
    /\ result = NoneV

\* Lines 31-39: the guard, the normalisation and the start of the loop.
CalculateTrajectoryEnter ==
    /\ op = "calculate_trajectory"
    /\ pc = "called"
    /\ IF TooFewWaypoints(waypoints)
       THEN /\ pc' = "returned"
            /\ UNCHANGED <<normalized_waypoints, current_time, trajectory_points>>
       ELSE IF NormalizeRaises(waypoints)
       THEN /\ pc' = "raised"
            /\ UNCHANGED <<normalized_waypoints, current_time, trajectory_points>>
       ELSE /\ pc' = "loop"
            /\ normalized_waypoints' =
                   _normalize_waypoint_times(waypoints, start_time, end_time)
            /\ trajectory_points' = << >>
            /\ current_time' = start_time
    /\ UNCHANGED <<op, waypoints, start_time, end_time, time_step, detectorVars, helperVars>>

\* Lines 41-54: one turn of the while loop.
SampleStep ==
    /\ op = "calculate_trajectory"
    /\ pc = "loop"
    /\ RLe(current_time, end_time)
    /\ Len(trajectory_points) < MaxSamples
    /\ IF InterpolateRaises(normalized_waypoints, current_time)
       THEN /\ pc' = "raised"
            /\ UNCHANGED <<current_time, trajectory_points>>
       ELSE /\ pc' = "loop"
            /\ trajectory_points' =
                   IF _interpolate_position_at_time(normalized_waypoints,
                                                    current_time) # NoneV
                   THEN Append(trajectory_points,
                               TrajectoryPoint(normalized_waypoints,
                                               current_time))
                   ELSE trajectory_points
            /\ current_time' = RAdd(current_time, time_step)
    /\ UNCHANGED <<op, waypoints, start_time, end_time, time_step, normalized_waypoints, detectorVars, helperVars>>

\* Lines 56-68: the loop is left, the end point is ensured, the list is
\* returned.
EnsureEndAndReturn ==
    /\ op = "calculate_trajectory"
    /\ pc = "loop"
    /\ ~RLe(current_time, end_time)
    /\ pc' = "returned"
    /\ trajectory_points' =
           EnsureEndPoint(trajectory_points, normalized_waypoints, end_time)
    /\ UNCHANGED <<op, waypoints, start_time, end_time, time_step, normalized_waypoints, current_time, detectorVars, helperVars>>

SamplerNext == CalculateTrajectoryEnter \/ SampleStep \/ EnsureEndAndReturn

SpecSampler == SamplerInit /\ [][SamplerNext]_vars

---------------------------------------------------------------------------
(* Claims on the conflict detector *)

Returned(o) == op = o /\ pc = "returned"

SameCoordinates(p, q) == p.x = q.x /\ p.y = q.y /\ p.z = q.z

\* The sample times of the primary trajectory and of flight f.
UnionTimes(f) ==
    TimesOf(primary_trajectory) \cup TimesOf(other_trajectories[f].trajectory)

\* The records of the report for flight f at time t.
RecordsAt(f, t) ==
    {i \in 1..Len(report.conflicts) :
        /\ report.conflicts[i].other_flight_id = f
        /\ report.conflicts[i].time = t}

BothResolve(f, t) ==
    /\ _get_position_at_time(primary_trajectory, t) # NoneV
    /\ _get_position_at_time(other_trajectories[f].trajectory, t) # NoneV

\* Both positions resolve at t and are closer than the buffer.
CloseAt(f, t) ==
    /\ BothResolve(f, t)
    /\ RLt(calculate_distance_3d(
               _get_position_at_time(primary_trajectory, t),
               _get_position_at_time(other_trajectories[f].trajectory, t)),
           safety_buffer)

\* C1: the report of check_conflicts holds, for every other flight f and
\* every instant t among the sample times of the primary trajectory and of
\* f, exactly one record for (f, t) when both positions resolve at t and
\* are closer than safety_buffer, and none otherwise; it holds no record
\* for any other flight or instant; and the crossing at t = 120 of
\* (50,50,60) and (50,50,55) with buffer 50 gives exactly one record, at
\* t = 120, with distance 5 and severity HIGH.
C1_OneRecordPerCloseInstant ==
    Returned("check_conflicts") =>
        /\ \A f \in 1..Len(other_trajectories) : \A t \in UnionTimes(f) :
               Cardinality(RecordsAt(f, t)) = IF CloseAt(f, t) THEN 1 ELSE 0
        /\ \A i \in 1..Len(report.conflicts) :
               /\ report.conflicts[i].other_flight_id
                      \in 1..Len(other_trajectories)
               /\ report.conflicts[i].time
                      \in UnionTimes(report.conflicts[i].other_flight_id)
        /\ primary_trajectory = CrossingPrimary =>
               /\ Len(report.conflicts) = 1
               /\ report.conflicts[1].time = R(120)
               /\ report.conflicts[1].distance = R(5)
               /\ report.conflicts[1].severity = "HIGH"

\* A report with a record at an instant sampled only by the other flight,
\* and an instant where both positions resolve at or beyond the buffer.
C1_Witness ==
    /\ Returned("check_conflicts")
    /\ \E f \in 1..Len(other_trajectories) :
          /\ \E t \in UnionTimes(f) \ TimesOf(primary_trajectory) :
                 CloseAt(f, t) /\ Cardinality(RecordsAt(f, t)) = 1
          /\ \E t \in UnionTimes(f) :
                 BothResolve(f, t) /\ ~CloseAt(f, t) /\ RecordsAt(f, t) = {}

\* C2: every record of a report has a distance strictly below its own
\* safety_buffer field, which is the safety_buffer of the call.
C2_DistanceBelowBuffer ==
    Returned("check_conflicts") =>
        \A i \in 1..Len(report.conflicts) :
            /\ RLt(report.conflicts[i].distance,
                   report.conflicts[i].safety_buffer)
            /\ report.conflicts[i].safety_buffer = safety_buffer

\* A report with a record, next to an instant where the distance equals
\* the buffer.
C2_Witness ==
    /\ Returned("check_conflicts")
    /\ Len(report.conflicts) >= 1
    /\ \E f \in 1..Len(other_trajectories) : \E t \in UnionTimes(f) :
          /\ BothResolve(f, t)
          /\ calculate_distance_3d(
                 _get_position_at_time(primary_trajectory, t),
                 _get_position_at_time(other_trajectories[f].trajectory, t))
             = safety_buffer

\* C6: the conflicts of a report are sorted non-decreasing by
\* (severity_score, time): of two adjacent records the first has the lower
\* score, or the same score and a time that is not later.
C6_SortedByScoreThenTime ==
    Returned("check_conflicts") =>
        \A i \in 1..(Len(report.conflicts) - 1) :
            LET a == report.conflicts[i]
                b == report.conflicts[i + 1]
            IN  \/ RLt(a.severity_score, b.severity_score)
                \/ /\ a.severity_score = b.severity_score
                   /\ RLe(a.time, b.time)

\* A report over two other flights whose records, as concatenated, were
\* not in order, with a tie on the score among them.
C6_Witness ==
    /\ Returned("check_conflicts")
    /\ Len(other_trajectories) = 2
    /\ report.conflicts #
           PairLoop(primary_trajectory, other_trajectories, safety_buffer,
                    1, << >>, 0)[1]
    /\ \E i \in 1..(Len(report.conflicts) - 1) :
          /\ report.conflicts[i].severity_score
                 = report.conflicts[i + 1].severity_score
          /\ RLt(report.conflicts[i].time, report.conflicts[i + 1].time)
    /\ \E i \in 1..(Len(report.conflicts) - 1) :
          RLt(report.conflicts[i].severity_score,
              report.conflicts[i + 1].severity_score)

\* The cases of C7: no other flight, an empty primary trajectory, or only
\* empty other trajectories.
NothingToCompare ==
    \/ Len(other_trajectories) = 0
    \/ primary_trajectory = << >>
    \/ \A i \in 1..Len(other_trajectories) :
           other_trajectories[i].trajectory = << >>

\* C7: check_conflicts returns, without raising, an empty conflicts list
\* and is_safe = true when there is no other flight, when the primary
\* trajectory is empty and when every other trajectory is empty.
C7_NothingToCompareIsSafe ==
    (op = "check_conflicts" /\ pc # "called" /\ NothingToCompare) =>
        /\ pc = "returned"
        /\ report.conflicts = << >>
        /\ report.is_safe = TRUE

\* An empty primary trajectory checked against a sampled flight with a
\* positive buffer.
C7_Witness ==
    /\ Returned("check_conflicts")
    /\ primary_trajectory = << >>
    /\ Len(other_trajectories) >= 1
    /\ other_trajectories[1].trajectory # << >>
    /\ RLt(R(0), safety_buffer)

\* C8: in every report is_safe tells that the conflicts list is empty, and
\* total_conflicts is its length.
C8_SafeIffNoConflicts ==
    Returned("check_conflicts") =>
        /\ report.is_safe = (Len(report.conflicts) = 0)
        /\ report.total_conflicts = Len(report.conflicts)

\* An unsafe report none of whose records is HIGH.
C8_Witness ==
    /\ Returned("check_conflicts")
    /\ report.is_safe = FALSE
    /\ report.total_conflicts >= 2
    /\ \A i \in 1..Len(report.conflicts) :
           report.conflicts[i].severity # "HIGH"

\* C9: the severity_score of a record is max(0, (safety_buffer - distance)
\* / safety_buffer): multiplied by the buffer it gives back safety_buffer -
\* distance when that quotient is not negative, and it is 0 otherwise; it
\* is 0 for distance = safety_buffer and 1 for distance = 0; and it lies
\* in [0, 1] for every record of a report of check_conflicts.
C9_SeverityScore ==
    /\ Returned("_create_conflict_record") =>
           LET s == conflict.severity_score
               diff == RSub(safety_buffer, distance)
           IN  /\ IF RLt(RMul(diff, safety_buffer), R(0))
                  THEN s = R(0)
                  ELSE RMul(s, safety_buffer) = diff
               /\ distance = safety_buffer => s = R(0)
               /\ distance = R(0) => s = R(1)
    /\ Returned("check_conflicts") =>
           \A i \in 1..Len(report.conflicts) :
               /\ RLe(R(0), report.conflicts[i].severity_score)
               /\ RLe(report.conflicts[i].severity_score, R(1))

\* A record made for a distance beyond a positive buffer: the score is
\* clamped to 0.
C9_Witness ==
    /\ Returned("_create_conflict_record")
    /\ RLt(R(0), safety_buffer)
    /\ RLt(safety_buffer, distance)
    /\ conflict.severity_score = R(0)

\* The severity that C10 gives to a distance d under a buffer b.
SeverityByThresholds(d, b) ==
    IF RLt(RMul(R(2), d), b) THEN "HIGH"
    ELSE IF RLt(RMul(R(5), d), RMul(R(4), b)) THEN "MEDIUM"
    ELSE "LOW"

\* C10: the severity of a record is HIGH exactly for distance < 0.5 *
\* safety_buffer, MEDIUM exactly for 0.5 * safety_buffer <= distance <
\* 0.8 * safety_buffer, and LOW exactly for distance >= 0.8 *
\* safety_buffer.
C10_SeverityThresholds ==
    /\ Returned("_create_conflict_record") =>
           conflict.severity = SeverityByThresholds(distance, safety_buffer)
    /\ Returned("check_conflicts") =>
           \A i \in 1..Len(report.conflicts) :
               report.conflicts[i].severity =
                   SeverityByThresholds(report.conflicts[i].distance,
                                        report.conflicts[i].safety_buffer)

\* A record made at the boundary distance = 0.5 * safety_buffer, which is
\* MEDIUM.
C10_Witness ==
    /\ Returned("_create_conflict_record")
    /\ RLt(R(0), safety_buffer)
    /\ RMul(R(2), distance) = safety_buffer
    /\ conflict.severity = "MEDIUM"

\* C15: every record of a report of check_conflicts has the type
\* 'spatial', and in the summary spatial_violations is total_conflicts,
\* temporal_violations is 0 and safe_segments is 0.
C15_OnlySpatial ==
    /\ Returned("check_conflicts") =>
           /\ \A i \in 1..Len(report.conflicts) :
                  report.conflicts[i].type = "spatial"
           /\ report.summary.spatial_violations = report.total_conflicts
           /\ report.summary.temporal_violations = 0
           /\ report.summary.safe_segments = 0
    /\ Returned("_create_conflict_record") => conflict.type = "spatial"

\* A report with records for two other flights.
C15_Witness ==
    /\ Returned("check_conflicts")
    /\ report.total_conflicts >= 2
    /\ report.summary.spatial_violations >= 2
    /\ \E i, j \in 1..Len(report.conflicts) :
          report.conflicts[i].other_flight_id
              # report.conflicts[j].other_flight_id

\* C17: no position held by a record of a report of check_conflicts is
\* one of the objects of the input: neither primary_position a sample of
\* the primary trajectory nor other_position a sample of the trajectory of
\* the other flight.  (The inputs themselves are left as they are: no
\* step of check_conflicts or calculate_trajectory assigns to them, and
\* every point calculate_trajectory returns is a dictionary made anew.)
C17_OutputsNeverAliasInputs ==
    Returned("check_conflicts") =>
        \A i \in 1..Len(report.conflicts) :
            LET c == report.conflicts[i] IN
            /\ PositionSample(primary_trajectory, c.time) = 0
            /\ PositionSample(other_trajectories[c.other_flight_id].trajectory,
                              c.time) = 0

\* t lies between the earliest and the latest sample time of the trajectory.
WithinSpan(trajectory, t) ==
    /\ \E e \in TimesOf(trajectory) : RLe(e, t)
    /\ \E l \in TimesOf(trajectory) : RLe(t, l)

\* C20: a conflict is reported only at an instant shared by both flights:
\* the time of every conflict record lies within the sampled time span of
\* the primary trajectory and within that of the other flight's trajectory.
C20_SharedInstant ==
    Returned("check_conflicts") =>
        \A i \in 1..Len(report.conflicts) :
            LET c == report.conflicts[i] IN
            /\ WithinSpan(primary_trajectory, c.time)
            /\ WithinSpan(other_trajectories[c.other_flight_id].trajectory,
                          c.time)

---------------------------------------------------------------------------
(* Claims on the trajectory sampler *)

\* The last point of the returned list is the one appended after the loop:
\* it stands at end_time with speed 0 behind a grid sample that fell
\* strictly before end_time.
EndPointAppended ==
    LET n == Len(trajectory_points)
    IN  /\ n >= 2
        /\ trajectory_points[n].speed = R(0)
        /\ trajectory_points[n].time = end_time
        /\ RLt(trajectory_points[n - 1].time, end_time)

\* C3: a non-empty list returned by calculate_trajectory begins at a time
\* that is not before start_time and ends at a time equal to end_time.
C3_FirstAfterStartLastAtEnd ==
    (Returned("calculate_trajectory") /\ Len(trajectory_points) > 0) =>
        /\ RLe(start_time, trajectory_points[1].time)
        /\ trajectory_points[Len(trajectory_points)].time = end_time

\* A returned list whose grid did not land on end_time, closed by the
\* appended end point.
C3_Witness ==
    /\ Returned("calculate_trajectory")
    /\ Len(trajectory_points) >= 3
    /\ EndPointAppended
    /\ RAdd(trajectory_points[Len(trajectory_points) - 1].time, time_step)
           # end_time

SpeedWithinLimits(speed) == RLe(R(5), speed) /\ RLe(speed, R(30))

\* C4: every point of a list returned by calculate_trajectory has a speed
\* in [5, 30], but for the appended end point, which is the last of the
\* list, stands behind a grid sample strictly before end_time, and has
\* speed 0.
C4_SpeedWithinLimits ==
    Returned("calculate_trajectory") =>
        \A i \in 1..Len(trajectory_points) :
            \/ SpeedWithinLimits(trajectory_points[i].speed)
            \/ /\ i = Len(trajectory_points)
               /\ EndPointAppended

\* A returned list closed by the appended end point, with a sample taken
\* in a segment of zero duration and a sample whose speed was raised to
\* the lower limit.
C4_Witness ==
    /\ Returned("calculate_trajectory")
    /\ EndPointAppended
    /\ \E i \in 1..(Len(trajectory_points) - 1) :
          LET k == SegmentAt(normalized_waypoints, trajectory_points[i].time, 1)
          IN  /\ k # 0
              /\ normalized_waypoints[k].time = normalized_waypoints[k + 1].time
    /\ \E i \in 1..(Len(trajectory_points) - 1) :
          /\ trajectory_points[i].speed = R(5)
          /\ trajectory_points[i].x = trajectory_points[i + 1].x

\* C5: called with no waypoint or with one, calculate_trajectory returns an
\* empty list whatever start_time, end_time and time_step are: it does not
\* raise and does not enter the sampling loop.
C5_FewWaypointsGiveEmpty ==
    (op = "calculate_trajectory" /\ Len(waypoints) <= 1) =>
        /\ pc \in {"called", "returned"}
        /\ trajectory_points = << >>
        /\ normalized_waypoints = << >>

\* The call returned for a single waypoint whose time is 0, a window that
\* is not empty and a positive time_step.
C5_Witness ==
    /\ Returned("calculate_trajectory")
    /\ Len(waypoints) = 1
    /\ "time" \in DOMAIN waypoints[1]
    /\ waypoints[1].time = R(0)
    /\ RLt(start_time, end_time)
    /\ RLt(R(0), time_step)
    /\ trajectory_points = << >>

\* C13: calculate_trajectory, called with at least two waypoints that all
\* carry a time and with start_time < end_time, does not end in a raised
\* failure, whatever the raw times are; neither does check_conflicts.
C13_NeverRaises ==
    /\ (op = "calculate_trajectory" /\ Len(waypoints) >= 2
            /\ AllHaveTime(waypoints) /\ RLt(start_time, end_time)) =>
           pc # "raised"
    /\ op = "check_conflicts" => pc # "raised"

\* C14: the sampling loop of calculate_trajectory, entered with at least
\* two waypoints and start_time <= end_time, terminates for every
\* time_step: from each state of the loop some number n of further turns
\* brings current_time beyond end_time.  (MaxSamples turns are enough for
\* every time_step of 1 or more within the bounds; for a time_step that is
\* not positive no n does, however large.)
C14_LoopTerminates ==
    (op = "calculate_trajectory" /\ pc = "loop"
         /\ RLe(start_time, end_time)) =>
        \E n \in 0..MaxSamples :
            RLt(end_time, RAdd(current_time, RMul(R(n), time_step)))

\* The normalized time the rescaling rule gives the waypoint wp.
RescaledTime(wp) ==
    RAdd(start_time, RMul(RDiv(wp.time, MaxRawTime(waypoints)),
                          RSub(end_time, start_time)))

\* C21: when all waypoints carry a time, the normalized waypoints are the
\* waypoints at start_time + (raw_time / max_raw_time) * (end_time -
\* start_time), every normalized time lies in [start_time, end_time], a
\* waypoint with the largest raw time lands on end_time, and the list is
\* ordered by non-decreasing normalized time.
C21_NormalizedIntoWindow ==
    (op = "calculate_trajectory" /\ pc \in {"loop", "returned"}
         /\ normalized_waypoints # << >> /\ AllHaveTime(waypoints)) =>
        LET n == Len(normalized_waypoints) IN
        /\ n = Len(waypoints)
        /\ \A i \in 1..n : \E j \in 1..n :
               /\ normalized_waypoints[j].x = waypoints[i].x
               /\ normalized_waypoints[j].y = waypoints[i].y
               /\ normalized_waypoints[j].z = GetZ(waypoints[i])
               /\ normalized_waypoints[j].time = RescaledTime(waypoints[i])
        /\ \A j \in 1..n :
               /\ RLe(start_time, normalized_waypoints[j].time)
               /\ RLe(normalized_waypoints[j].time, end_time)
        /\ \A i \in 1..n :
               waypoints[i].time = MaxRawTime(waypoints) =>
                   RescaledTime(waypoints[i]) = end_time
        /\ \A j \in 1..(n - 1) :
               RLe(normalized_waypoints[j].time, normalized_waypoints[j + 1].time)

---------------------------------------------------------------------------
(* Calls of the helpers on their own *)

\* Trajectories for the position lookup: up to three samples, in any order
\* of time and with repeated times.
LookupCounts == 0..3
LookupTrajectories == SeqsOf(SamplePoints, LookupCounts)

\* Instants at the samples, between them and outside them.
LookupTimes == {Rat(k, 2) : k \in (-2)..(2 * MaxTime + 2)}

\* Lists of normalized waypoints: _normalize_waypoint_times returns them
\* sorted by time.
SortedWaypointLists ==
    {w \in LookupTrajectories :
        \A i \in 1..(Len(w) - 1) : RLe(w[i].time, w[i + 1].time)}

\* Times to format, whole and half seconds of either sign.
Seconds == {Rat(k, 2) : k \in (-2 * MaxSeconds)..(2 * MaxSeconds)}

\* Conflict records to make zones of: at times below, at and above 10,
\* and up to two of them.
ZoneTimes == {-5, 0, 5, 10, 15}
ZoneConflicts ==
    {_create_conflict_record(Origin, Far, R(t), R(d), 1, R(b)) :
        t \in ZoneTimes, d \in {6}, b \in {12, 15}}
ZoneCounts == 0..2

\* Conflict records to make recommendations of: a HIGH, a MEDIUM and a LOW
\* one, at different distances.
RecommendationConflicts ==
    {_create_conflict_record(Origin, Far, R(0), R(d), 1, R(12)) : d \in {2, 6, 11}}

HelperInit ==
    /\ pc = "called"
    /\ \/ /\ op = "_get_position_at_time"
          /\ args \in [trajectory : LookupTrajectories, target_time : LookupTimes]
       \/ /\ op = "interpolate_position"
          /\ args \in [pos1 : SamplePoints, pos2 : SamplePoints, target_time : LookupTimes]
       \/ /\ op = "_interpolate_position_at_time"
          /\ args \in [waypoints : SortedWaypointLists, target_time : LookupTimes]
       \/ /\ op = "format_time"
          /\ args \in [seconds : Seconds]
       \/ /\ op = "generate_safety_buffer_recommendations"
          /\ args \in [conflicts : SeqsUpTo(RecommendationConflicts, MaxConflicts)]
       \/ /\ op = "get_conflict_zones"
          /\ args \in [conflicts : SeqsOf(ZoneConflicts, ZoneCounts),
                       buffer_expansion : {Rat(3, 2), R(1), R(2)}]
    /\ result = NoneV
    /\ primary_trajectory = << >>
    /\ other_trajectories = << >>
    /\ safety_buffer = R(0)
    /\ distance = R(0)
    /\ report = NoneV
    /\ conflict = NoneV
    /\ waypoints = << >>
    /\ start_time = R(0)
    /\ end_time = R(0)
    /\ time_step = R(0)
    /\ normalized_waypoints = << >>
    /\ current_time = R(0)
    /\ trajectory_points = << >>

GetPositionAtTime ==
    /\ op = "_get_position_at_time"
    /\ pc = "called"
    /\ pc' = "returned"
    /\ result' = _get_position_at_time(args.trajectory, args.target_time)
    /\ UNCHANGED <<op, args, detectorVars, samplerVars>>

InterpolatePosition ==
    /\ op = "interpolate_position"
    /\ pc = "called"
    /\ pc' = "returned"
    /\ result' = interpolate_position(args.pos1, args.pos2, args.target_time)
    /\ UNCHANGED <<op, args, detectorVars, samplerVars>>

InterpolatePositionAtTime ==
    /\ op = "_interpolate_position_at_time"
    /\ pc = "called"
    /\ IF InterpolateRaises(args.waypoints, args.target_time)
       THEN pc' = "raised" /\ result' = result
       ELSE /\ pc' = "returned"
            /\ result' = _interpolate_position_at_time(args.waypoints,
                                                       args.target_time)
    /\ UNCHANGED <<op, args, detectorVars, samplerVars>>

\* result is <<the string returned, the number of recursive calls made>>.
FormatTime ==
    /\ op = "format_time"
    /\ pc = "called"
    /\ pc' = "returned"
    /\ result' = <<format_time(args.seconds), FormatTimeRecursions(args.seconds)>>
    /\ UNCHANGED <<op, args, detectorVars, samplerVars>>

GetConflictZones ==
    /\ op = "get_conflict_zones"
    /\ pc = "called"
    /\ pc' = "returned"
    /\ result' = get_conflict_zones(args.conflicts, args.buffer_expansion)
    /\ UNCHANGED <<op, args, detectorVars, samplerVars>>

GenerateSafetyBufferRecommendations ==
    /\ op = "generate_safety_buffer_recommendations"
    /\ pc = "called"
    /\ pc' = "returned"
    /\ result' = generate_safety_buffer_recommendations(args.conflicts)
    /\ UNCHANGED <<op, args, detectorVars, samplerVars>>

HelperNext ==
    \/ GetPositionAtTime
    \/ GenerateSafetyBufferRecommendations
    \/ GetConflictZones
    \/ FormatTime
    \/ InterpolatePosition
    \/ InterpolatePositionAtTime

SpecHelpers == HelperInit /\ [][HelperNext]_vars

---------------------------------------------------------------------------
(* Claims on the helpers *)

\* The position at time t on the straight line from p1 to p2.
PointBetween(p1, p2, t) ==
    LET fraction == RDiv(RSub(t, p1.time), RSub(p2.time, p1.time))
    IN  [x |-> RAdd(p1.x, RMul(fraction, RSub(p2.x, p1.x))),
         y |-> RAdd(p1.y, RMul(fraction, RSub(p2.y, p1.y))),
         z |-> RAdd(p1.z, RMul(fraction, RSub(p2.z, p1.z))),
         time |-> t]

\* The sequences that hold the elements of seq in another order.
Reorderings(seq) ==
    {[i \in 1..Len(seq) |-> seq[f[i]]] :
        f \in {g \in [1..Len(seq) -> 1..Len(seq)] :
                  \A i, j \in 1..Len(seq) : i # j => g[i] # g[j]}}

DistinctTimes(seq) ==
    \A i, j \in 1..Len(seq) : i # j => seq[i].time # seq[j].time

\* C11: _get_position_at_time(trajectory, t) returns the first sample in
\* sequence order whose time is t when there is one; otherwise the point
\* at t on the line between a latest sample before t and an earliest
\* sample after t; with samples on one side of t only, the nearest of
\* them as it is; and None for an empty trajectory.  With distinct sample
\* times the result is the same for every order of the samples.
C11_PositionLookup ==
    Returned("_get_position_at_time") =>
        LET tr == args.trajectory
            t == args.target_time
            exact == {i \in 1..Len(tr) : tr[i].time = t}
            before == {i \in 1..Len(tr) : RLt(tr[i].time, t)}
            after == {i \in 1..Len(tr) : RLt(t, tr[i].time)}
            latest == {b \in before : \A j \in before : RLe(tr[j].time, tr[b].time)}
            earliest == {a \in after : \A j \in after : RLe(tr[a].time, tr[j].time)}
        IN  /\ exact # {} =>
                   \E i \in exact : (\A j \in exact : i <= j) /\ result = tr[i]
            /\ (exact = {} /\ before # {} /\ after # {}) =>
                   \E b \in latest : \E a \in earliest :
                       result = PointBetween(tr[b], tr[a], t)
            /\ (exact = {} /\ before # {} /\ after = {}) =>
                   \E b \in latest : result = tr[b]
            /\ (exact = {} /\ before = {} /\ after # {}) =>
                   \E a \in earliest : result = tr[a]
            /\ tr = << >> => result = NoneV
            /\ DistinctTimes(tr) =>
                   \A other \in Reorderings(tr) :
                       _get_position_at_time(other, t) = result

\* A lookup between two samples that are neither adjacent in the sequence
\* nor in the order of time, with a third sample further away before them.
C11_Witness ==
    /\ Returned("_get_position_at_time")
    /\ Len(args.trajectory) = 3
    /\ DistinctTimes(args.trajectory)
    /\ RLt(args.trajectory[3].time, args.trajectory[1].time)
    /\ RLt(args.trajectory[1].time, args.target_time)
    /\ RLt(args.target_time, args.trajectory[2].time)
    /\ args.trajectory[1].x # args.trajectory[2].x
    /\ result.time = args.target_time
    /\ result.x # args.trajectory[1].x
    /\ result.x # args.trajectory[2].x

\* C12: interpolate_position(p1, p2, t) has the coordinates of p1 for
\* t = p1.time and those of p2 for t = p2.time, and is p1 when the two
\* times are equal; _interpolate_position_at_time, on normalized waypoints
\* of distinct times, has at the time of a waypoint the coordinates of
\* that waypoint.
C12_InterpolationIdentity ==
    /\ Returned("interpolate_position") =>
           /\ args.target_time = args.pos1.time =>
                  SameCoordinates(result, args.pos1)
           /\ args.target_time = args.pos2.time =>
                  SameCoordinates(result, args.pos2)
           /\ args.pos1.time = args.pos2.time => result = args.pos1
    /\ (op = "_interpolate_position_at_time" /\ pc # "called"
            /\ DistinctTimes(args.waypoints)) =>
           /\ pc = "returned"
           /\ \A i \in 1..Len(args.waypoints) :
                  args.target_time = args.waypoints[i].time =>
                      SameCoordinates(result, args.waypoints[i])

\* The whole number k with k <= q < k + 1, for q >= 0 within the bounds.
Floor(q) ==
    CHOOSE k \in 0..(MaxSeconds + 1) : RLe(R(k), q) /\ RLt(q, R(k + 1))

\* '<m>m <r>s' or '<r>s' for s >= 0.
Formatted(s) ==
    LET m == Floor(RDiv(s, R(60)))
        r == Floor(RSub(s, R(60 * m)))
    IN  IF m > 0 THEN Str(m) \o <<"m", " ">> \o Str(r) \o <<"s">>
        ELSE Str(r) \o <<"s">>

\* C16: format_time(s) is '<m>m <r>s' with m = floor(s / 60) and
\* r = floor(s mod 60) for s >= 0 and m > 0, '<r>s' for m = 0, and '-'
\* before the format of -s for s < 0, reached by one recursive call; 125
\* gives '2m 5s', 45 gives '45s' and -30 gives '-30s'.
C16_FormatTime ==
    Returned("format_time") =>
        LET s == args.seconds IN
        /\ RLe(R(0), s) => result = <<Formatted(s), 0>>
        /\ RLt(s, R(0)) => result = <<(<<"-">> \o Formatted(RSub(R(0), s))), 1>>
        /\ s = R(125) => result[1] = <<"2", "m", " ", "5", "s">>
        /\ s = R(45) => result[1] = <<"4", "5", "s">>
        /\ s = R(-30) => result[1] = <<"-", "3", "0", "s">>

\* A negative time of more than a minute with half a second in it.
C16_Witness ==
    /\ Returned("format_time")
    /\ args.seconds = Rat(-251, 2)
    /\ result = << <<"-", "2", "m", " ", "5", "s">>, 1 >>

\* C18: get_conflict_zones returns one zone for each conflict, in the
\* order of the conflicts, whose center is the location of the conflict,
\* whose radius is its safety_buffer times buffer_expansion, whose
\* time_start is max(0, time - 10) and whose time_end is time + 10.
C18_ConflictZones ==
    Returned("get_conflict_zones") =>
        /\ Len(result) = Len(args.conflicts)
        /\ \A i \in 1..Len(args.conflicts) :
               LET c == args.conflicts[i] IN
               /\ result[i].center = c.location
               /\ result[i].radius = RMul(c.safety_buffer, args.buffer_expansion)
               /\ result[i].time_start =
                      (IF RLt(R(10), c.time) THEN RSub(c.time, R(10)) ELSE R(0))
               /\ result[i].time_end = RAdd(c.time, R(10))

\* Zones of two conflicts, the first later than 10 and under another
\* buffer than the second, which is earlier than 10.
C18_Witness ==
    /\ Returned("get_conflict_zones")
    /\ Len(result) = 2
    /\ args.buffer_expansion = Rat(3, 2)
    /\ args.conflicts[1].time = R(15)
    /\ args.conflicts[2].time = R(5)
    /\ result[1].time_start = R(5)
    /\ result[2].time_start = R(0)
    /\ result[1].radius = Rat(45, 2)
    /\ result[2].radius = R(18)

RecommendationsOfType(type) ==
    {i \in 1..Len(result) : result[i].type = type}

\* C19: generate_safety_buffer_recommendations returns one recommendation,
\* of type 'maintain', for an empty list of conflicts; for any other list
\* it holds an 'increase' recommendation exactly when some conflict is
\* HIGH, and that one suggests 2.5 times the least distance of all
\* conflicts, and it holds a 'temporal_adjustment' recommendation exactly
\* when there are more than 3 conflicts.
C19_Recommendations ==
    Returned("generate_safety_buffer_recommendations") =>
        LET n == Len(args.conflicts) IN
        /\ n = 0 => (Len(result) = 1 /\ result[1].type = "maintain")
        /\ n > 0 =>
               /\ RecommendationsOfType("increase") # {}
                      <=> \E i \in 1..n : args.conflicts[i].severity = "HIGH"
               /\ \A k \in RecommendationsOfType("increase") :
                      \E i \in 1..n :
                          /\ \A j \in 1..n : RLe(args.conflicts[i].distance,
                                                 args.conflicts[j].distance)
                          /\ RMul(R(2), result[k].suggested_buffer)
                                 = RMul(R(5), args.conflicts[i].distance)
               /\ RecommendationsOfType("temporal_adjustment") # {} <=> n > 3

\* Recommendations for three conflicts, one of them HIGH and not the
\* first: an increase to 5, and no temporal adjustment.
C19_Witness ==
    /\ Returned("generate_safety_buffer_recommendations")
    /\ Len(args.conflicts) = 3
    /\ args.conflicts[1].severity = "LOW"
    /\ args.conflicts[2].severity = "MEDIUM"
    /\ args.conflicts[3].severity = "HIGH"
    /\ result = <<[type |-> "increase", suggested_buffer |-> R(5)]>>

---------------------------------------------------------------------------
(* Further claims on the conflict detector *)

\* The number of samples of all other flights together.
OtherSamples ==
    TotalSamples([i \in 1..Len(other_trajectories) |->
                     other_trajectories[i].trajectory])

\* C24: summary.total_checks of a report is the sum, over the other
\* flights, of the number of primary samples times the number of samples
\* of that flight, whatever the merged instants and the conflicts are; it
\* is 0 without other flights and for an empty primary trajectory.
C24_TotalChecks ==
    Returned("check_conflicts") =>
        /\ report.summary.total_checks = Len(primary_trajectory) * OtherSamples
        /\ (other_trajectories = << >> \/ primary_trajectory = << >>) =>
               report.summary.total_checks = 0

\* Two samples of the primary trajectory against two flights of one sample
\* each, all at one instant and in conflict: four checks for one merged
\* instant a pair and two conflicts.
C24_Witness ==
    /\ Returned("check_conflicts")
    /\ Len(primary_trajectory) = 2
    /\ Len(other_trajectories) = 2
    /\ \A i \in 1..2 :
           /\ Len(other_trajectories[i].trajectory) = 1
           /\ Cardinality(UnionTimes(i)) = 1
    /\ report.total_conflicts = 2
    /\ report.summary.total_checks = 4

\* C26: for safety_buffer <= 0 check_conflicts returns a report without
\* conflicts whatever the trajectories are, so _create_conflict_record
\* never divides by a zero safety_buffer: no call of check_conflicts
\* raises, and no severity_score of a report is negative.
C26_NoConflictsWithoutBuffer ==
    /\ (op = "check_conflicts" /\ pc # "called" /\ RLe(safety_buffer, R(0))) =>
           /\ pc = "returned"
           /\ report.conflicts = << >>
    /\ op = "check_conflicts" => pc # "raised"
    /\ Returned("check_conflicts") =>
           \A i \in 1..Len(report.conflicts) :
               RLe(R(0), report.conflicts[i].severity_score)

\* A report for a zero buffer and two flights that are at one place at one
\* instant: distance 0 is not below the buffer, no record is made.
C26_Witness ==
    /\ Returned("check_conflicts")
    /\ safety_buffer = R(0)
    /\ \E f \in 1..Len(other_trajectories) : \E t \in UnionTimes(f) :
           /\ BothResolve(f, t)
           /\ calculate_distance_3d(
                  _get_position_at_time(primary_trajectory, t),
                  _get_position_at_time(other_trajectories[f].trajectory, t))
                  = R(0)
    /\ report.conflicts = << >>

\* What a record tells of a conflict apart from the flights' names, with
\* the two positions in the order primary, other or the other way round.
Encounter(c, exchanged) ==
    [time |-> c.time,
     distance |-> c.distance,
     severity |-> c.severity,
     severity_score |-> c.severity_score,
     location |-> c.location,
     first |-> IF exchanged THEN c.other_position ELSE c.primary_position,
     second |-> IF exchanged THEN c.primary_position ELSE c.other_position]

\* The report of the call with the primary flight and the single other
\* flight exchanged.
ExchangedReport ==
    check_conflicts(other_trajectories[1].trajectory,
                    Flights(<<primary_trajectory>>), safety_buffer)

\* C28: detection of a pair is symmetric: check_conflicts(A, [B]) and
\* check_conflicts(B, [A]) report the same sequence of time, distance,
\* severity, severity_score and location, with primary_position and
\* other_position exchanged.
C28_PairSymmetry ==
    (Returned("check_conflicts") /\ Len(other_trajectories) = 1) =>
        /\ ~CheckRaises(other_trajectories[1].trajectory,
                        Flights(<<primary_trajectory>>), safety_buffer)
        /\ [i \in 1..Len(report.conflicts) |->
               Encounter(report.conflicts[i], FALSE)]
           = [i \in 1..Len(ExchangedReport.conflicts) |->
                 Encounter(ExchangedReport.conflicts[i], TRUE)]

\* Two flights sampled at different instants, in conflict at two instants
\* at least, at one of them away from each other.
C28_Witness ==
    /\ Returned("check_conflicts")
    /\ Len(other_trajectories) = 1
    /\ TimesOf(primary_trajectory) # TimesOf(other_trajectories[1].trajectory)
    /\ Len(report.conflicts) >= 2
    /\ \E i \in 1..Len(report.conflicts) :
           ~SameCoordinates(report.conflicts[i].primary_position,
                            report.conflicts[i].other_position)

SeverityRank(severity) ==
    CASE severity = "LOW" -> 0
      [] severity = "MEDIUM" -> 1
      [] severity = "HIGH" -> 2

ReportFor(b) == check_conflicts(primary_trajectory, other_trajectories, b)

C30_IncreaseIsAnIncrease ==
    Returned("check_conflicts") =>
        LET recommendations ==
                generate_safety_buffer_recommendations(report.conflicts)
        IN  \A k \in 1..Len(recommendations) :
                recommendations[k].type = "increase" =>
                    RLt(safety_buffer, recommendations[k].suggested_buffer)

---------------------------------------------------------------------------
(* Further claims on the trajectory sampler *)

\* A call of calculate_trajectory that returned for at least two waypoints,
\* a positive time_step and a window that is not reversed.
SampledCall ==
    /\ Returned("calculate_trajectory")
    /\ Len(waypoints) >= 2
    /\ RLt(R(0), time_step)
    /\ RLe(start_time, end_time)

\* The number of the last grid time: floor((end_time - start_time) /
\* time_step).
LastGridIndex == Floor(RDiv(RSub(end_time, start_time), time_step))

GridTime(k) == RAdd(start_time, RMul(R(k), time_step))

\* The times the claim gives the returned trajectory.
GridTimes ==
    [i \in 1..(LastGridIndex + 1) |-> GridTime(i - 1)]
        \o (IF RLt(GridTime(LastGridIndex), end_time)
            THEN <<end_time>> ELSE << >>)

C23_SyntheticEndPoint ==
    SampledCall =>
        LET n == Len(trajectory_points)
            final_position == normalized_waypoints[Len(normalized_waypoints)]
        IN  IF RLt(GridTime(LastGridIndex), end_time)
            THEN /\ n = LastGridIndex + 2
                 /\ trajectory_points[n] =
                        [time |-> end_time,
                         x |-> final_position.x,
                         y |-> final_position.y,
                         z |-> final_position.z,
                         speed |-> R(0),
                         heading |-> trajectory_points[n - 1].heading]
            ELSE /\ n = LastGridIndex + 1
                 /\ \A i \in 1..n : trajectory_points[i].speed # R(0)

\* An end point appended at the last normalized waypoint, away from the
\* first one, with a heading taken over from the sample before it that is
\* not the heading 0.
C23_Witness ==
    /\ SampledCall
    /\ EndPointAppended
    /\ LET n == Len(trajectory_points) IN
       /\ trajectory_points[n].x = normalized_waypoints[Len(normalized_waypoints)].x
       /\ trajectory_points[n].x # normalized_waypoints[1].x
       /\ trajectory_points[n].heading = trajectory_points[n - 1].heading
       /\ trajectory_points[n].heading # Heading(R(0), R(1))

---------------------------------------------------------------------------
(* Further claims on the helpers *)

\* C25: every zone returned by get_conflict_zones has a time window that
\* holds the time of its conflict: time_start <= time <= time_end, for
\* conflicts at negative times too.
C25_ZoneWindowHoldsConflict ==
    Returned("get_conflict_zones") =>
        \A i \in 1..Len(result) :
            /\ RLe(result[i].time_start, args.conflicts[i].time)
            /\ RLe(args.conflicts[i].time, result[i].time_end)

============================================================================
